---------------------------- MODULE Spec2Model ----------------------------
(***************************************************************************)
(* The NLL type/region relation engine of librustc/infer/nll_relate:       *)
(* TypeRelating (the relation engine), ScopeInstantiator, TypeGeneralizer  *)
(* and the delegate / inference-context operations they call.              *)
(*                                                                         *)
(* The engine is recursive-descent and single threaded.  Every function    *)
(* of the source is an operator that takes the engine state `s` and        *)
(* returns [s |-> state after, r |-> outcome]; an outcome is               *)
(*   [k |-> "ok", v |-> value]     Ok(value)                               *)
(*   [k |-> "err"]                 Err(TypeError)      (returned, `?`)     *)
(*   [k |-> "bug"]                 bug!(..) / assert!  (abort)             *)
(*   [k |-> "panic"]               slice / map index panic (abort)         *)
(* One action of the state machine is one top-level call of the public     *)
(* operation.                                                              *)
(***************************************************************************)
EXTENDS Naturals, Sequences, FiniteSets, TLC

\* Universes of the initial type variables and placeholders are 0..MaxUniverse.
MaxUniverse == 1
\* Number of top-level calls made on one engine.
MaxCalls == 1

(***************************************************************************)
(* Values: types, regions, variances.                                      *)
(***************************************************************************)
Covariant == "Covariant"
Contravariant == "Contravariant"
Invariant == "Invariant"
Bivariant == "Bivariant"
Variance == {Covariant, Contravariant, Invariant, Bivariant}

\* ty::INNERMOST, the De Bruijn index of the innermost binder.
INNERMOST == 0

ReLateBound(d, br) == [k |-> "ReLateBound", d |-> d, br |-> br]
ReFree(n) == [k |-> "ReFree", n |-> n]
\* an existential region variable: by is the delegate method that made it
ReVar(id, u, by) == [k |-> "ReVar", id |-> id, u |-> u, by |-> by]
\* a placeholder region is identified by its universe and the bound name
RePlaceholder(u, br) == [k |-> "RePlaceholder", u |-> u, br |-> br]

TyVar(vid) == [k |-> "TyVar", vid |-> vid]
IntVar(id) == [k |-> "IntVar", id |-> id]
Projection(id) == [k |-> "Projection", id |-> id]
Placeholder(u) == [k |-> "Placeholder", u |-> u]
Adt(n) == [k |-> "Adt", n |-> n]
\* &'r T and &'r mut T
Ref(r, t, mutbl) == [k |-> "Ref", r |-> r, t |-> t, mutbl |-> mutbl]
\* ty::FnPtr(Binder<FnSig>): for<..> fn(inputs) -> output
FnPtr(inputs, output) == [k |-> "FnPtr", inputs |-> inputs, output |-> output]

Ok(v) == [k |-> "ok", v |-> v]
Err == [k |-> "err"]
Bug == [k |-> "bug"]
Panic == [k |-> "panic"]
\* what a method returns: the engine after it, its outcome, and whether the
\* outcome is Ok
Ret(s, r) == [s |-> s, r |-> r, ok |-> r.k = "ok"]
\* the engine after a method that cannot fail, and the value it returns
Val(s, v) == [s |-> s, r |-> v]
Aborted(r) == r.k \in {"bug", "panic"}

\* ty::Variance::xform
xform(v, w) ==
  IF v = Bivariant \/ w = Bivariant THEN Bivariant
  ELSE IF v = Invariant \/ w = Invariant THEN Invariant
  ELSE IF v = w THEN Covariant
  ELSE Contravariant

\* <TypeAndMut as Relate>::relate: the variance of the referent
mt_variance(mutbl) == IF mutbl THEN Invariant ELSE Covariant

\* UniverseIndex::cannot_name: self cannot name a universe created later
cannot_name(self, other) == self < other

(***************************************************************************)
(* The inference context's type variable table: one record per variable,   *)
(* root = its equality root, sub = its sub-root, and, on a root, whether   *)
(* the value is known, the value, and the universe.                        *)
(***************************************************************************)
NoValue == [k |-> "none"]
NewVarRec(vid, u) ==
  [root |-> vid, sub |-> vid, known |-> FALSE, value |-> NoValue, universe |-> u]

root_var(vars, vid) == vars[vid].root
sub_root_var(vars, vid) == vars[vid].sub
probe(vars, vid) == vars[root_var(vars, vid)]

Min(x, y) == IF x <= y THEN x ELSE y

\* sub_relations.union(a, b)
sub(vars, a, b) ==
  LET sa == sub_root_var(vars, a)
      sb == sub_root_var(vars, b)
  IN [v \in DOMAIN vars |->
        IF vars[v].sub = sa THEN [vars[v] EXCEPT !.sub = sb] ELSE vars[v]]

\* eq_relations.union(a, b); sub_relations.union(a, b)
equate(vars, a, b) ==
  LET ra == root_var(vars, a)
      rb == root_var(vars, b)
      u == Min(vars[ra].universe, vars[rb].universe)
      merged == [v \in DOMAIN vars |->
                   IF vars[v].root = ra
                   THEN [vars[v] EXCEPT !.root = rb, !.universe = u]
                   ELSE IF vars[v].root = rb
                   THEN [vars[v] EXCEPT !.universe = u]
                   ELSE vars[v]]
  IN sub(merged, a, b)

\* eq_relations.union_value(root(vid), Known { value })
instantiate(vars, vid, ty) ==
  LET r == root_var(vars, vid)
  IN [v \in DOMAIN vars |->
        IF vars[v].root = r
        THEN [vars[v] EXCEPT !.known = TRUE, !.value = ty]
        ELSE vars[v]]

\* type_variables.new_var(universe, ..)
new_var(vars, u) == Append(vars, NewVarRec(Len(vars) + 1, u))

RECURSIVE shallow_resolve(_, _)
shallow_resolve(vars, t) ==
  IF t.k = "TyVar" /\ probe(vars, t.vid).known
  THEN shallow_resolve(vars, probe(vars, t.vid).value)
  ELSE t


(***************************************************************************)
(* The engine state threaded through the operators:                        *)
(*   ambient_variance, a_scopes, b_scopes   fields of TypeRelating         *)
(*   vars                                   infcx.type_variables           *)
(*   delegate = [universe, regions, outlives, goals]                       *)
(*   log                                    trace of the current call      *)
(* A scope (BoundRegionScope.map) is a sequence of [br, region] entries in *)
(* insertion order.                                                        *)
(***************************************************************************)
VARIABLES ambient_variance, a_scopes, b_scopes, type_variables, delegate,
          normalization, forbid_inference_vars, log, last, calls

vars == <<ambient_variance, a_scopes, b_scopes, type_variables, delegate,
          normalization, forbid_inference_vars, log, last, calls>>

Lazy == "Lazy"
Eager == "Eager"

Self == [ambient_variance |-> ambient_variance, a_scopes |-> a_scopes,
         b_scopes |-> b_scopes, vars |-> type_variables,
         delegate |-> delegate, log |-> <<>>]

Log(s, ev) == [s EXCEPT !.log = Append(@, ev)]

\* TypeRelatingDelegate::push_outlives
delegate_push_outlives(s, sup, sb) ==
  [s EXCEPT !.delegate.outlives = Append(@, <<sup, sb>>)]

\* TypeRelatingDelegate::push_domain_goal(ProjectionEq(projection = ty))
push_domain_goal(s, projection_ty, ty) ==
  [s EXCEPT !.delegate.goals = Append(@, <<projection_ty, ty>>)]

\* TypeRelatingDelegate::create_next_universe
create_next_universe(s) ==
  Val([s EXCEPT !.delegate.universe = @ + 1], s.delegate.universe + 1)

\* TypeRelatingDelegate::next_existential_region_var
next_existential_region_var(s) ==
  Val([s EXCEPT !.delegate.regions = @ + 1],
      ReVar(s.delegate.regions + 1, s.delegate.universe, "existential"))

\* TypeRelatingDelegate::next_placeholder_region
next_placeholder_region(s, universe, br) ==
  Val([s EXCEPT !.delegate.placeholders = @ + 1], RePlaceholder(universe, br))

\* TypeRelatingDelegate::generalize_existential
generalize_existential(s, universe) ==
  Val([s EXCEPT !.delegate.regions = @ + 1],
      ReVar(s.delegate.regions + 1, universe, "generalize"))

\* infcx.next_ty_var: a new variable in the current universe
next_ty_var(s) ==
  Val([s EXCEPT !.vars = new_var(@, s.delegate.universe)],
      TyVar(Len(s.vars) + 1))

(***************************************************************************)
(* Bound region scopes.                                                    *)
(***************************************************************************)
ScopeHas(scope, br) == \E i \in DOMAIN scope : scope[i].br = br
ScopeGet(scope, br) ==
  scope[CHOOSE i \in DOMAIN scope : scope[i].br = br].region

ambient_covariance(s) == s.ambient_variance \in {Covariant, Invariant}

ambient_contravariance(s) == s.ambient_variance \in {Contravariant, Invariant}

\* A faulty closure next_region: a universe is created for every name, not
\* only for the first one of the scope.
next_region_universe_each(vis, br) ==
  IF vis.universally_quantified
  THEN LET cu == create_next_universe(vis.s)
           pr == next_placeholder_region(cu.s, cu.r, br)
       IN [vis EXCEPT !.s = pr.s,
                      !.lazy_universe = [some |-> TRUE, u |-> cu.r],
                      !.bound_region_scope =
                         Append(@, [br |-> br, region |-> pr.r])]
  ELSE LET er == next_existential_region_var(vis.s)
       IN [vis EXCEPT !.s = er.s,
                      !.bound_region_scope =
                         Append(@, [br |-> br, region |-> er.r])]

\* The closure next_region of create_scope; vis is the ScopeInstantiator with
\* the closure's captured state (lazy_universe, universally_quantified).
next_region(vis, br) ==
  IF vis.universally_quantified
  THEN LET cu == IF vis.lazy_universe.some
                 THEN Val(vis.s, vis.lazy_universe.u)
                 ELSE create_next_universe(vis.s)
           pr == next_placeholder_region(cu.s, cu.r, br)
       IN [vis EXCEPT !.s = pr.s,
                      !.lazy_universe = [some |-> TRUE, u |-> cu.r],
                      !.bound_region_scope =
                         Append(@, [br |-> br, region |-> pr.r])]
  ELSE LET er == next_existential_region_var(vis.s)
       IN [vis EXCEPT !.s = er.s,
                      !.bound_region_scope =
                         Append(@, [br |-> br, region |-> er.r])]

\* ScopeInstantiator::visit_region; target_index is the instantiator's
\* target_index when r is visited
visit_region(vis, r, target_index) ==
  IF r.k = "ReLateBound" /\ r.d = target_index
     /\ ~ScopeHas(vis.bound_region_scope, r.br)
  THEN next_region(vis, r.br)
  ELSE vis

\* The traversal of a value by TypeVisitor (super_visit_with): the regions
\* it passes to visit_region, in order, each with the target_index that
\* ScopeInstantiator::visit_binder (shift_in / shift_out) has set when the
\* region is met.
RECURSIVE visit_ty(_, _), visit_tys(_, _, _)
visit_binder(t, target_index) ==
  visit_tys(t.inputs, 1, target_index + 1) \o visit_ty(t.output, target_index + 1)

visit_tys(ts, i, target_index) ==
  IF i > Len(ts) THEN <<>>
  ELSE visit_ty(ts[i], target_index) \o visit_tys(ts, i + 1, target_index)

visit_ty(t, target_index) ==
  CASE t.k = "Ref" ->
         <<[r |-> t.r, target_index |-> target_index]>>
           \o visit_ty(t.t, target_index)
    [] t.k = "FnPtr" -> visit_binder(t, target_index)
    [] OTHER -> <<>>

RECURSIVE visit_regions(_, _, _)
visit_regions(vis, rs, n) ==
  IF n = 0 THEN vis
  ELSE visit_region(visit_regions(vis, rs, n - 1), rs[n].r, rs[n].target_index)

\* TypeRelating::create_scope: value is a Binder<FnSig>, visited below its
\* binder (skip_binder) with target_index INNERMOST.
create_scope(s, value, universally_quantified) ==
  LET rs == visit_tys(value.inputs, 1, INNERMOST)
              \o visit_ty(value.output, INNERMOST)
      vis == visit_regions([s |-> s, bound_region_scope |-> <<>>,
                            lazy_universe |-> [some |-> FALSE, u |-> 0],
                            universally_quantified |-> universally_quantified],
                           rs, Len(rs))
  IN Val(Log(vis.s, [e |-> "create_scope", value |-> value,
                     universally_quantified |-> universally_quantified,
                     scope |-> vis.bound_region_scope,
                     universe_before |-> s.delegate.universe,
                     universe_after |-> vis.s.delegate.universe,
                     delegate_before |-> s.delegate,
                     delegate_after |-> vis.s.delegate]),
         vis.bound_region_scope)

\* TypeRelating::lookup_bound_region: unsigned index arithmetic and the
\* indexing of the slice and of the map panic when out of range / absent.
lookup_bound_region(debruijn, br, first_free_index, scopes) ==
  IF debruijn < first_free_index THEN Panic
  ELSE LET debruijn_index == debruijn - first_free_index
       IN IF debruijn_index + 1 > Len(scopes) THEN Panic
          ELSE LET scope == scopes[Len(scopes) - debruijn_index]
               IN IF ScopeHas(scope, br) THEN Ok(ScopeGet(scope, br))
                  ELSE Panic

\* TypeRelating::replace_bound_region
replace_bound_region(r, first_free_index, scopes) ==
  IF r.k = "ReLateBound"
  THEN lookup_bound_region(r.d, r.br, first_free_index, scopes)
  ELSE Ok(r)


(***************************************************************************)
(* TypeRelating: the relation engine.                                      *)
(*                                                                         *)
(* A function of the source that goes on after a call it makes is written  *)
(* as one operator up to the call and one operator for what follows it,    *)
(* which takes the outcome x of the call.                                  *)
(***************************************************************************)
Enter(s, f, a, b) ==
  Log(s, [e |-> "enter", f |-> f, a |-> a, b |-> b,
          la |-> Len(s.a_scopes), lb |-> Len(s.b_scopes),
          variance |-> s.ambient_variance])

Exit(x, f, a, b) ==
  Ret([x.s EXCEPT !.log = Append(@, [e |-> "exit", f |-> f, a |-> a, b |-> b,
                                     la |-> Len(x.s.a_scopes),
                                     lb |-> Len(x.s.b_scopes),
                                     variance |-> x.s.ambient_variance,
                                     r |-> x.r])],
      x.r)

\* TypeRelating::push_outlives
push_outlives(s, sup, sb) == delegate_push_outlives(s, sup, sb)

\* A faulty regions: the covariant obligation is pushed with its two regions
\* exchanged.
regions_exchanged(s, a, b) ==
  LET v_a == replace_bound_region(a, INNERMOST, s.a_scopes)
      v_b == replace_bound_region(b, INNERMOST, s.b_scopes)
  IN IF v_a.k # "ok" THEN Ret(s, v_a)
     ELSE IF v_b.k # "ok" THEN Ret(s, v_b)
     ELSE LET s1 == IF ambient_covariance(s)
                    THEN push_outlives(s, v_a.v, v_b.v) ELSE s
              s2 == IF ambient_contravariance(s1)
                    THEN push_outlives(s1, v_a.v, v_b.v) ELSE s1
          IN Ret(Log(s2, [e |-> "regions", a |-> a, b |-> b,
                          la |-> Len(s.a_scopes), lb |-> Len(s.b_scopes),
                          v_a |-> v_a.v, v_b |-> v_b.v,
                          variance |-> s.ambient_variance,
                          emitted |-> SubSeq(s2.delegate.outlives,
                                             Len(s.delegate.outlives) + 1,
                                             Len(s2.delegate.outlives)),
                          r |-> Ok(a)]),
                 Ok(a))

\* TypeRelating::regions
regions(s, a, b) ==
  LET v_a == replace_bound_region(a, INNERMOST, s.a_scopes)
      v_b == replace_bound_region(b, INNERMOST, s.b_scopes)
  IN IF v_a.k # "ok" THEN Ret(s, v_a)
     ELSE IF v_b.k # "ok" THEN Ret(s, v_b)
     ELSE LET s1 == IF ambient_covariance(s)
                    THEN push_outlives(s, v_b.v, v_a.v) ELSE s
              s2 == IF ambient_contravariance(s1)
                    THEN push_outlives(s1, v_a.v, v_b.v) ELSE s1
          IN Ret(Log(s2, [e |-> "regions", a |-> a, b |-> b,
                          la |-> Len(s.a_scopes), lb |-> Len(s.b_scopes),
                          v_a |-> v_a.v, v_b |-> v_b.v,
                          variance |-> s.ambient_variance,
                          emitted |-> SubSeq(s2.delegate.outlives,
                                             Len(s.delegate.outlives) + 1,
                                             Len(s2.delegate.outlives)),
                          r |-> Ok(a)]),
                 Ok(a))

RECURSIVE relate_projection_ty(_, _, _)
\* A faulty relate_projection_ty: two projections are made one goal
\* P1 = P2.
relate_projection_ty_direct(s, projection_ty, value_ty) ==
  Ret(push_domain_goal(s, projection_ty, value_ty), Ok(value_ty))

\* TypeRelating::relate_projection_ty; it cannot fail
relate_projection_ty(s, projection_ty, value_ty) ==
  IF value_ty.k = "Projection"
  THEN LET nv == next_ty_var(s)
           x == relate_projection_ty(nv.s, projection_ty, nv.r)
           y == relate_projection_ty(x.s, value_ty, nv.r)
       IN Ret(y.s, Ok(nv.r))
  ELSE Ret(push_domain_goal(s, projection_ty, value_ty), Ok(value_ty))

\* TypeFlags::HAS_TY_INFER
RECURSIVE has_infer_types(_)
has_infer_types(t) ==
  CASE t.k \in {"TyVar", "IntVar"} -> TRUE
    [] t.k = "Ref" -> has_infer_types(t.t)
    [] t.k = "FnPtr" -> \/ \E i \in DOMAIN t.inputs : has_infer_types(t.inputs[i])
                        \/ has_infer_types(t.output)
    [] OTHER -> FALSE


(***************************************************************************)
(* TypeGeneralizer.  gz holds its own fields (ambient_variance,            *)
(* first_free_index, for_vid_sub_root, universe); operators return         *)
(* [s, gz, r].                                                             *)
(***************************************************************************)
GRet(s, gz, r) == [s |-> s, gz |-> gz, r |-> r, ok |-> r.k = "ok"]

\* the trace of TypeGeneralizer::regions
gen_regions_event(s, gz, a, r) ==
  [e |-> "gen_regions", a |-> a, first_free_index |-> gz.first_free_index,
   universe |-> gz.universe, regions_before |-> s.delegate.regions, r |-> r]

\* A faulty TypeGeneralizer::regions: every region is returned unchanged.
gen_regions_keep(s, gz, a) ==
  GRet(Log(s, gen_regions_event(s, gz, a, Ok(a))), gz, Ok(a))

\* A faulty TypeGeneralizer::regions: the bound regions kept are those that
\* refer to a binder outside the value.
gen_regions_outer(s, gz, a) ==
  IF a.k = "ReLateBound" /\ a.d >= gz.first_free_index
  THEN GRet(Log(s, gen_regions_event(s, gz, a, Ok(a))), gz, Ok(a))
  ELSE LET g == generalize_existential(s, gz.universe)
       IN GRet(Log(g.s, gen_regions_event(s, gz, a, Ok(g.r))), gz, Ok(g.r))

\* TypeGeneralizer::regions
gen_regions(s, gz, a) ==
  IF a.k = "ReLateBound" /\ a.d < gz.first_free_index
  THEN GRet(Log(s, gen_regions_event(s, gz, a, Ok(a))), gz, Ok(a))
  ELSE LET g == generalize_existential(s, gz.universe)
       IN GRet(Log(g.s, gen_regions_event(s, gz, a, Ok(g.r))), gz, Ok(g.r))

\* A faulty Placeholder arm: the two universes of the check are exchanged.
gen_placeholder_exchanged(s, gz, a) ==
  IF cannot_name(a.u, gz.universe)
  THEN GRet(Log(s, [e |-> "gen_placeholder", a |-> a,
                    universe |-> gz.universe, r |-> Err]),
            gz, Err)
  ELSE GRet(Log(s, [e |-> "gen_placeholder", a |-> a,
                    universe |-> gz.universe, r |-> Ok(a)]),
            gz, Ok(a))

\* TypeGeneralizer::tys, the Placeholder arm
gen_placeholder(s, gz, a) ==
  IF cannot_name(gz.universe, a.u)
  THEN GRet(Log(s, [e |-> "gen_placeholder", a |-> a,
                    universe |-> gz.universe, r |-> Err]),
            gz, Err)
  ELSE GRet(Log(s, [e |-> "gen_placeholder", a |-> a,
                    universe |-> gz.universe, r |-> Ok(a)]),
            gz, Ok(a))

\* A faulty first arm of TypeGeneralizer::tys: the inference variable met
\* under the forbid_inference_vars policy is reported as a mismatch.
gen_forbidden_mismatch(s, gz, a) ==
  GRet(Log(s, [e |-> "gen_forbidden", a |-> a, r |-> Err]), gz, Err)

\* TypeGeneralizer::tys, the arm of an inference variable met under the
\* forbid_inference_vars policy
gen_forbidden(s, gz, a) ==
  GRet(Log(s, [e |-> "gen_forbidden", a |-> a, r |-> Bug]), gz, Bug)

RECURSIVE gen_tys(_, _, _), gen_ty_var(_, _, _), gen_binders(_, _, _),
          gen_relate_with_variance(_, _, _, _), gen_super_relate_tys(_, _, _),
          gen_relate_inputs(_, _, _, _), gen_relate_fn_sig(_, _, _)

\* TypeGeneralizer::relate_with_variance, after `self.relate(a, b)?`
gen_restore_variance(gz, x) ==
  IF x.ok
  THEN GRet(x.s, [x.gz EXCEPT !.ambient_variance = gz.ambient_variance], x.r)
  ELSE x

\* TypeGeneralizer::relate_with_variance on a type
gen_relate_with_variance(s, gz, variance, a) ==
  gen_restore_variance(
    gz, gen_tys(s, [gz EXCEPT !.ambient_variance = xform(@, variance)], a))

\* TypeGeneralizer::relate_with_variance on a region
gen_relate_with_variance_region(s, gz, variance, a) ==
  gen_restore_variance(
    gz, gen_regions(s, [gz EXCEPT !.ambient_variance = xform(@, variance)], a))

\* A faulty TyVar arm: the occurs check compares the variable's root, not
\* its sub-root, with for_vid_sub_root.
gen_ty_var_root(s, gz, a) ==
  LET vid == root_var(s.vars, a.vid)
  IN IF vid = gz.for_vid_sub_root
     THEN GRet(s, gz, Err)
     ELSE IF probe(s.vars, vid).known
     THEN gen_tys(s, gz, probe(s.vars, vid).value)
     ELSE GRet([s EXCEPT !.vars = new_var(@, gz.universe)], gz,
               Ok(TyVar(Len(s.vars) + 1)))

\* TypeGeneralizer::tys, the TyVar arm
gen_ty_var(s, gz, a) ==
  LET vid == root_var(s.vars, a.vid)
      sub_vid == sub_root_var(s.vars, vid)
  IN IF sub_vid = gz.for_vid_sub_root
     THEN GRet(s, gz, Err)
     ELSE IF probe(s.vars, vid).known
     THEN gen_tys(s, gz, probe(s.vars, vid).value)
     ELSE GRet([s EXCEPT !.vars = new_var(@, gz.universe)], gz,
               Ok(TyVar(Len(s.vars) + 1)))

\* TypeGeneralizer::tys
gen_tys(s, gz, a) ==
  CASE a.k \in {"TyVar", "IntVar"} /\ forbid_inference_vars ->
         gen_forbidden(s, gz, a)
    [] a.k = "TyVar" /\ ~forbid_inference_vars -> gen_ty_var(s, gz, a)
    [] a.k = "IntVar" /\ ~forbid_inference_vars -> GRet(s, gz, Ok(a))
    [] a.k = "Placeholder" -> gen_placeholder(s, gz, a)
    [] OTHER -> gen_super_relate_tys(s, gz, a)

\* TypeGeneralizer::binders, after `self.relate(..)?`
gen_binders_shift_out(x) ==
  IF x.ok
  THEN GRet(x.s, [x.gz EXCEPT !.first_free_index = @ - 1], x.r)
  ELSE x

\* TypeGeneralizer::binders
gen_binders(s, gz, a) ==
  gen_binders_shift_out(
    gen_relate_fn_sig(s, [gz EXCEPT !.first_free_index = @ + 1], a))

\* <FnSig as Relate>::relate on the generalizer: the first n inputs, each
\* contravariantly, then the output
gen_input_build(x, y) ==
  IF y.ok
  THEN GRet(y.s, y.gz, Ok(Append(x.r.v, y.r.v)))
  ELSE y

gen_input(ins, n, x) ==
  IF x.ok
  THEN gen_input_build(
         x, gen_relate_with_variance(x.s, x.gz, Contravariant, ins[n]))
  ELSE x

gen_relate_inputs(s, gz, ins, n) ==
  IF n = 0 THEN GRet(s, gz, Ok(<<>>))
  ELSE gen_input(ins, n, gen_relate_inputs(s, gz, ins, n - 1))

gen_fn_sig_build(x, y) ==
  IF y.ok
  THEN GRet(y.s, y.gz, Ok(FnPtr(x.r.v, y.r.v)))
  ELSE y

gen_fn_sig_output(a, x) ==
  IF x.ok
  THEN gen_fn_sig_build(x, gen_tys(x.s, x.gz, a.output))
  ELSE x

gen_relate_fn_sig(s, gz, a) ==
  gen_fn_sig_output(a, gen_relate_inputs(s, gz, a.inputs, Len(a.inputs)))

\* relate::super_relate_tys(generalizer, a, a)
gen_ref_build(a, x, y) ==
  IF y.ok
  THEN GRet(y.s, y.gz, Ok(Ref(x.r.v, y.r.v, a.mutbl)))
  ELSE y

gen_ref_ty(a, x) ==
  IF x.ok
  THEN gen_ref_build(
         a, x, gen_relate_with_variance(x.s, x.gz, mt_variance(a.mutbl), a.t))
  ELSE x

gen_super_relate_tys(s, gz, a) ==
  CASE a.k = "Ref" ->
         gen_ref_ty(
           a, gen_relate_with_variance_region(s, gz, Contravariant, a.r))
    [] a.k = "FnPtr" -> gen_binders(s, gz, a)
    [] OTHER -> GRet(s, gz, Ok(a))

\* the trace of TypeRelating::generalize_value
generalize_value_exit(s, value, for_vid, x) ==
  Ret(Log(x.s, [e |-> "generalize_value", value |-> value,
                for_vid |-> for_vid,
                universe |-> probe(s.vars, for_vid).universe,
                vars |-> s.vars, r |-> x.r]),
      x.r)

\* TypeRelating::generalize_value
generalize_value(s, value, for_vid) ==
  IF probe(s.vars, for_vid).known THEN Ret(s, Panic)
  ELSE generalize_value_exit(
         s, value, for_vid,
         gen_tys(s, [ambient_variance |-> s.ambient_variance,
                     first_free_index |-> INNERMOST,
                     for_vid_sub_root |-> sub_root_var(s.vars, for_vid),
                     universe |-> probe(s.vars, for_vid).universe],
                 value))


(***************************************************************************)
(* TypeRelating: types, binders, variables.                                *)
(***************************************************************************)
RECURSIVE tys(_, _, _), relate_ty_var(_, _, _),
          relate_with_variance(_, _, _, _), super_combine_tys(_, _, _),
          relate_fn_sig(_, _, _), relate_inputs(_, _, _, _), binders(_, _, _),
          binders_covariant(_, _, _), binders_contravariant(_, _, _)

\* TypeRelating::relate_with_variance, after `self.relate(a, b)?`
restore_variance(s, x) ==
  IF x.ok
  THEN Ret([x.s EXCEPT !.ambient_variance = s.ambient_variance], x.r)
  ELSE x

\* TypeRelating::relate_with_variance on two types
relate_with_variance(s, variance, a, b) ==
  restore_variance(
    s, tys([s EXCEPT !.ambient_variance = xform(@, variance)], a, b))

\* TypeRelating::relate_with_variance on two regions
relate_with_variance_region(s, variance, a, b) ==
  restore_variance(
    s, regions([s EXCEPT !.ambient_variance = xform(@, variance)], a, b))

\* TypeRelating::relate_ty_var: `self.a_scopes = old_a_scopes; result`
restore_a_scopes(old_a_scopes, result) ==
  IF Aborted(result.r) THEN result
  ELSE Ret([result.s EXCEPT !.a_scopes = old_a_scopes], result.r)

\* TypeRelating::relate_ty_var, after `self.generalize_value(value_ty, vid)?`
instantiate_and_relate(s, vid, value_ty, g) ==
  IF g.ok
  THEN IF forbid_inference_vars /\ has_infer_types(g.r.v) THEN Ret(g.s, Bug)
       ELSE restore_a_scopes(
              g.s.a_scopes,
              tys([g.s EXCEPT
                     !.vars = instantiate(@, vid, g.r.v),
                     !.log = Append(@, [e |-> "instantiate", vid |-> vid,
                                        value_ty |-> value_ty,
                                        generalized_ty |-> g.r.v,
                                        variance |-> s.ambient_variance,
                                        universe |->
                                          probe(s.vars, vid).universe,
                                        vars_before |-> s.vars,
                                        vars |-> g.s.vars,
                                        delegate |-> g.s.delegate,
                                        regions_before |->
                                          s.delegate.regions]),
                     !.a_scopes = <<>>],
                  g.r.v, value_ty))
  ELSE g

\* A faulty relate_ty_var: a variable met as the value is assigned to vid
\* instead of being unified with it.
relate_ty_var_assign(s, vid, value_ty) ==
  CASE value_ty.k = "TyVar" ->
         Ret(Log([s EXCEPT !.vars = instantiate(@, vid, value_ty)],
                 [e |-> "equate", a |-> vid, b |-> value_ty.vid]),
             Ok(value_ty))
    [] value_ty.k = "Projection" /\ normalization = Lazy ->
         relate_projection_ty(s, value_ty, TyVar(vid))
    [] OTHER ->
         instantiate_and_relate(s, vid, value_ty,
                                generalize_value(s, value_ty, vid))

\* TypeRelating::relate_ty_var
relate_ty_var(s, vid, value_ty) ==
  CASE value_ty.k = "TyVar" ->
         Ret(Log([s EXCEPT !.vars = equate(@, vid, value_ty.vid)],
                 [e |-> "equate", a |-> vid, b |-> value_ty.vid]),
             Ok(value_ty))
    [] value_ty.k = "Projection" /\ normalization = Lazy ->
         relate_projection_ty(s, value_ty, TyVar(vid))
    [] OTHER ->
         instantiate_and_relate(s, vid, value_ty,
                                generalize_value(s, value_ty, vid))

\* TypeRelating::tys; s0 is the engine as the call finds it
tys(s0, a0, b0) ==
  LET s == Enter(s0, "ty", a0, b0)
      a == shallow_resolve(s.vars, a0)
      b == IF ~forbid_inference_vars THEN shallow_resolve(s.vars, b0) ELSE b0
  IN CASE b.k = "TyVar" ->
            IF forbid_inference_vars THEN Ret(s, Bug)
            ELSE relate_ty_var(s, b.vid, a)
       [] b.k # "TyVar" /\ a.k = "TyVar" -> relate_ty_var(s, a.vid, b)
       [] b.k # "TyVar" /\ a.k = "Projection" /\ normalization = Lazy ->
            relate_projection_ty(s, a, b)
       [] b.k = "Projection" /\ a.k \notin {"TyVar", "Projection"}
          /\ normalization = Lazy ->
            relate_projection_ty(s, b, a)
       [] OTHER -> super_combine_tys(s, a, b)

\* relate::super_relate_tys(relation, a, b) on two references
ref_build(a, x, y) ==
  IF y.ok
  THEN Ret(y.s, Ok(Ref(x.r.v, y.r.v, a.mutbl)))
  ELSE y

ref_ty(a, b, x) ==
  IF x.ok
  THEN IF a.mutbl # b.mutbl THEN Ret(x.s, Err)
       ELSE ref_build(
              a, x, relate_with_variance(x.s, mt_variance(a.mutbl), a.t, b.t))
  ELSE x

\* infcx.super_combine_tys: integer variables unify with each other, any
\* other inference variable is a sort mismatch, and the rest is structural
\* (relate::super_relate_tys)
super_combine_tys(s, a, b) ==
  CASE a.k = "IntVar" /\ b.k = "IntVar" -> Ret(s, Ok(a))
    [] a.k \in {"IntVar", "TyVar"} /\ ~(a.k = "IntVar" /\ b.k = "IntVar") ->
         Ret(s, Err)
    [] b.k \in {"IntVar", "TyVar"} /\ a.k \notin {"IntVar", "TyVar"} ->
         Ret(s, Err)
    [] a.k = "Ref" /\ b.k = "Ref" ->
         ref_ty(a, b, relate_with_variance_region(s, Contravariant, a.r, b.r))
    [] a.k = "FnPtr" /\ b.k = "FnPtr" -> binders(s, a, b)
    [] a.k \notin {"Ref", "FnPtr", "IntVar", "TyVar"}
       /\ b.k \notin {"IntVar", "TyVar"} /\ a = b -> Ret(s, Ok(a))
    [] OTHER -> Ret(s, Err)

\* <FnSig as Relate>::relate: the argument counts must agree; the first n
\* inputs are related, each contravariantly, then the outputs
input_build(x, y) ==
  IF y.ok
  THEN Ret(y.s, Ok(Append(x.r.v, y.r.v)))
  ELSE y

relate_input(as, bs, n, x) ==
  IF x.ok
  THEN input_build(x, relate_with_variance(x.s, Contravariant, as[n], bs[n]))
  ELSE x

relate_inputs(s, as, bs, n) ==
  IF n = 0 THEN Ret(s, Ok(<<>>))
  ELSE relate_input(as, bs, n, relate_inputs(s, as, bs, n - 1))

fn_sig_build(inputs, y) ==
  IF y.ok
  THEN Ret(y.s, Ok(FnPtr(inputs, y.r.v)))
  ELSE y

fn_sig_output(a, b, x) ==
  IF x.ok
  THEN fn_sig_build(x.r.v, tys(x.s, a.output, b.output))
  ELSE x

relate_fn_sig(s, a, b) ==
  IF Len(a.inputs) # Len(b.inputs) THEN Ret(s, Err)
  ELSE fn_sig_output(a, b,
                     relate_inputs(s, a.inputs, b.inputs, Len(a.inputs)))

\* TypeRelating::binders, after `self.relate(a.skip_binder(),
\* b.skip_binder())?`: the variance is put back and both stacks are popped
binders_pop(variance, a, b, x) ==
  IF x.ok
  THEN Ret([x.s EXCEPT
              !.log = Append(@, [e |-> "exit", f |-> "FnSig", a |-> a,
                                 b |-> b, la |-> Len(x.s.a_scopes),
                                 lb |-> Len(x.s.b_scopes),
                                 variance |-> x.s.ambient_variance,
                                 r |-> x.r]),
              !.ambient_variance = variance,
              !.b_scopes = SubSeq(@, 1, Len(@) - 1),
              !.a_scopes = SubSeq(@, 1, Len(@) - 1)],
           x.r)
  ELSE Exit(x, "FnSig", a, b)

\* A faulty covariant block: the ambient variance is not reset to Covariant
\* for the bodies.
binders_covariant_keep(s, a, b) ==
  LET b_scope == create_scope(s, b, TRUE)
      a_scope == create_scope(b_scope.s, a, FALSE)
  IN binders_pop(
       s.ambient_variance, a, b,
       relate_fn_sig(
         Enter([a_scope.s EXCEPT !.b_scopes = Append(@, b_scope.r),
                                 !.a_scopes = Append(@, a_scope.r)],
               "FnSig", a, b),
         a, b))

\* TypeRelating::binders, the block `if self.ambient_covariance()`
binders_covariant(s, a, b) ==
  LET b_scope == create_scope(s, b, TRUE)
      a_scope == create_scope(b_scope.s, a, FALSE)
  IN binders_pop(
       s.ambient_variance, a, b,
       relate_fn_sig(
         Enter([a_scope.s EXCEPT !.b_scopes = Append(@, b_scope.r),
                                 !.a_scopes = Append(@, a_scope.r),
                                 !.ambient_variance = Covariant],
               "FnSig", a, b),
         a, b))

\* A faulty contravariant block: a's scope is made of existential regions
\* and b's of placeholders, as in the covariant block.
binders_contravariant_as_covariant(s, a, b) ==
  LET a_scope == create_scope(s, a, FALSE)
      b_scope == create_scope(a_scope.s, b, TRUE)
  IN binders_pop(
       s.ambient_variance, a, b,
       relate_fn_sig(
         Enter([b_scope.s EXCEPT !.a_scopes = Append(@, a_scope.r),
                                 !.b_scopes = Append(@, b_scope.r),
                                 !.ambient_variance = Contravariant],
               "FnSig", a, b),
         a, b))

\* TypeRelating::binders, the block `if self.ambient_contravariance()`
binders_contravariant(s, a, b) ==
  LET a_scope == create_scope(s, a, TRUE)
      b_scope == create_scope(a_scope.s, b, FALSE)
  IN binders_pop(
       s.ambient_variance, a, b,
       relate_fn_sig(
         Enter([b_scope.s EXCEPT !.a_scopes = Append(@, a_scope.r),
                                 !.b_scopes = Append(@, b_scope.r),
                                 !.ambient_variance = Contravariant],
               "FnSig", a, b),
         a, b))

\* A faulty end of binders: the value returned is b.
binders_end_b(a, b, y) ==
  IF y.ok
  THEN Exit(Ret(y.s, Ok(b)), "binder", a, b)
  ELSE Exit(y, "binder", a, b)

\* TypeRelating::binders: `Ok(a.clone())`
binders_end(a, b, y) ==
  IF y.ok
  THEN Exit(Ret(y.s, Ok(a)), "binder", a, b)
  ELSE Exit(y, "binder", a, b)

\* TypeRelating::binders, from `if self.ambient_contravariance()`
binders_second(a, b, x) ==
  IF x.ok
  THEN IF ambient_contravariance(x.s)
       THEN binders_end(a, b, binders_contravariant(x.s, a, b))
       ELSE Exit(Ret(x.s, Ok(a)), "binder", a, b)
  ELSE Exit(x, "binder", a, b)

\* TypeRelating::binders
binders(s, a, b) ==
  binders_second(
    a, b,
    IF ambient_covariance(s)
    THEN binders_covariant(Enter(s, "binder", a, b), a, b)
    ELSE Ret(Enter(s, "binder", a, b), Ok(a)))


(***************************************************************************)
(* The values the top-level calls are made on.                             *)
(***************************************************************************)
BoolT == Adt("bool")
CharT == Adt("char")
RegX == ReFree("x")
RegY == ReFree("y")
BoundA == ReLateBound(INNERMOST, "a")
BoundB == ReLateBound(INNERMOST, "b")
BoundC == ReLateBound(INNERMOST, "c")
\* the initial type variables: ?1 in the root universe, ?2 in MaxUniverse
Var1 == TyVar(1)
Var2 == TyVar(2)
RefX == Ref(RegX, BoolT, FALSE)
RefYVar == Ref(RegY, Var1, FALSE)
\* for<a> fn(&a bool, &a bool) -> bool  and  for<b, c> fn(&b bool, &c bool) -> bool
FnAA == FnPtr(<<Ref(BoundA, BoolT, FALSE), Ref(BoundA, BoolT, FALSE)>>, BoolT)
FnBC == FnPtr(<<Ref(BoundB, BoolT, FALSE), Ref(BoundC, BoolT, FALSE)>>, BoolT)
\* for<a> fn(&a bool, char) -> bool: differs from FnAA in the second input
FnAChar == FnPtr(<<Ref(BoundA, BoolT, FALSE), CharT>>, BoolT)
\* for<a> fn(?2, &a bool) -> bool
FnVarA == FnPtr(<<Var2, Ref(BoundA, BoolT, FALSE)>>, BoolT)
\* for<a> fn(for<b> fn(&a bool, &b bool) -> bool, &a bool) -> bool
FnNested ==
  FnPtr(<<FnPtr(<<Ref(ReLateBound(INNERMOST + 1, "a"), BoolT, FALSE),
                  Ref(BoundB, BoolT, FALSE)>>, BoolT),
          Ref(BoundA, BoolT, FALSE)>>, BoolT)
\* for<a> fn(&mut &a bool, &a bool) -> bool
FnMut == FnPtr(<<Ref(BoundA, Ref(BoundA, BoolT, FALSE), TRUE),
                 Ref(BoundA, BoolT, FALSE)>>, BoolT)

\* fn(&'x bool) -> bool, a binder that binds no region
FnFree == FnPtr(<<RefX>>, BoolT)

Vars == {Var1, Var2}
Projections == {Projection(1), Projection(2)}
Placeholders == {Placeholder(u) : u \in 0..MaxUniverse}
Refs == {RefX, RefYVar}
Fns == {FnAA, FnBC, FnAChar, FnVarA, FnNested, FnMut, FnFree}
Tys == {BoolT, IntVar(1)} \cup Vars \cup Projections \cup Placeholders
         \cup Refs \cup Fns
\* The pairs related: a variable or a projection against the other values,
\* and values of the same kind against each other.
TyPairs ==
  (Vars \X Tys) \cup (Tys \X Vars)
    \cup (Projections \X (Projections \cup {BoolT, RefX}))
    \cup ({BoolT, RefX} \X Projections)
    \cup (Fns \X Fns) \cup (Refs \X Refs)
    \cup ({BoolT, IntVar(1)} \X {BoolT, IntVar(1)})
    \cup (Placeholders \X Placeholders)
Regions == {RegX, RegY, BoundA}
\* the values the host resolves a variable to by its own unification
HostValues == {RefYVar}

InitVars == <<NewVarRec(1, 0), NewVarRec(2, MaxUniverse)>>

Init ==
  /\ ambient_variance \in Variance
  /\ a_scopes = <<>>
  /\ b_scopes = <<>>
  /\ type_variables = InitVars
  /\ delegate = [universe |-> MaxUniverse, regions |-> 0, placeholders |-> 0,
                 outlives |-> <<>>, goals |-> <<>>]
  /\ normalization \in {Lazy, Eager}
  /\ forbid_inference_vars \in BOOLEAN
  /\ log = <<>>
  /\ last = [op |-> "new", a |-> NoValue, b |-> NoValue, r |-> Ok(NoValue),
             pre |-> [a_scopes |-> a_scopes, b_scopes |-> b_scopes,
                      variance |-> ambient_variance,
                      vars |-> type_variables, delegate |-> delegate]]
  /\ calls = 0

\* a bug!(..) or a panic ends the program
Alive == ~Aborted(last.r)

\* the engine and its environment as a call finds them
Pre == [a_scopes |-> a_scopes, b_scopes |-> b_scopes,
        variance |-> ambient_variance, vars |-> type_variables,
        delegate |-> delegate]

Finish(op, a, b, x) ==
  /\ ambient_variance' = x.s.ambient_variance
  /\ a_scopes' = x.s.a_scopes
  /\ b_scopes' = x.s.b_scopes
  /\ type_variables' = x.s.vars
  /\ delegate' = x.s.delegate
  /\ log' = x.s.log
  /\ last' = [op |-> op, a |-> a, b |-> b, r |-> x.r, pre |-> Pre]
  /\ calls' = calls + 1
  /\ UNCHANGED <<normalization, forbid_inference_vars>>

\* relation.relate(a, b) on two types
RelateTys(a, b) ==
  /\ Alive
  /\ calls < MaxCalls
  /\ Finish("tys", a, b, tys(Self, a, b))

\* relation.relate(a, b) on two regions
RelateRegions(a, b) ==
  /\ Alive
  /\ calls < MaxCalls
  /\ Finish("regions", a, b, regions(Self, a, b))

\* the type variables that occur in a value
RECURSIVE ty_vars(_)
ty_vars(t) ==
  CASE t.k = "TyVar" -> {t.vid}
    [] t.k = "Ref" -> ty_vars(t.t)
    [] t.k = "FnPtr" ->
         UNION {ty_vars(t.inputs[i]) : i \in DOMAIN t.inputs}
           \cup ty_vars(t.output)
    [] OTHER -> {}

\* Before the engine is used, the host inference context records a <: b
\* between two unresolved variables (type_variables.sub), as its own
\* subtyping relation does.
HostSub(a, b) ==
  /\ calls = 0
  /\ a < b
  /\ ~probe(type_variables, a).known
  /\ ~probe(type_variables, b).known
  /\ sub_root_var(type_variables, a) # sub_root_var(type_variables, b)
  /\ type_variables' = sub(type_variables, a, b)
  /\ UNCHANGED <<ambient_variance, a_scopes, b_scopes, delegate,
                 normalization, forbid_inference_vars, log, last, calls>>

\* Before the engine is used, the host resolves an unresolved variable to a
\* value that passes its occurs check.
HostInstantiate(vid, ty) ==
  /\ calls = 0
  /\ ~probe(type_variables, vid).known
  /\ \A w \in ty_vars(ty) :
        /\ ~probe(type_variables, w).known
        /\ sub_root_var(type_variables, w) # sub_root_var(type_variables, vid)
  /\ type_variables' = instantiate(type_variables, vid, ty)
  /\ UNCHANGED <<ambient_variance, a_scopes, b_scopes, delegate,
                 normalization, forbid_inference_vars, log, last, calls>>

Next ==
  \/ \E p \in TyPairs : RelateTys(p[1], p[2])
  \/ \E a \in Regions, b \in Regions : RelateRegions(a, b)
  \/ \E a \in DOMAIN type_variables, b \in DOMAIN type_variables : HostSub(a, b)
  \/ \E vid \in DOMAIN type_variables, ty \in HostValues :
        HostInstantiate(vid, ty)

Spec == Init /\ [][Next]_vars

TypeOK ==
  /\ ambient_variance \in Variance
  /\ calls \in 0..MaxCalls
  /\ Len(a_scopes) >= 0

(***************************************************************************)
(* Properties.  `last` is the top-level call just made (its operands, its  *)
(* outcome and the state it started from) and `log` is the trace of that   *)
(* call, so each property of a call is a predicate of the state after it.  *)
(***************************************************************************)
\* the top-level call just made returned to its caller (Ok or Err)
Returned == last.op \in {"tys", "regions"} /\ last.r.k \in {"ok", "err"}

\* C1: scope stack balance.  After every top-level relate call that returns
\* Ok or Err, a_scopes and b_scopes are as long as they were before the call.
C1_ScopeStackBalance ==
  Returned =>
    /\ Len(a_scopes) = Len(last.pre.a_scopes)
    /\ Len(b_scopes) = Len(last.pre.b_scopes)

\* the obligations regions is to emit for the resolved regions v_a and v_b
RegionObligations(variance, v_a, v_b) ==
  CASE variance = Covariant -> << <<v_b, v_a>> >>
    [] variance = Contravariant -> << <<v_a, v_b>> >>
    [] variance = Invariant -> << <<v_b, v_a>>, <<v_a, v_b>> >>
    [] variance = Bivariant -> << >>

\* C2: region obligation symmetry.  Every region relation whose two regions
\* resolve to v_a and v_b emits exactly outlives(v_b, v_a) under Covariant,
\* outlives(v_a, v_b) under Contravariant, both in that order under
\* Invariant and none under Bivariant, and returns Ok(a), never Err; a free
\* region resolves to itself, and a top-level region relation changes
\* nothing but the obligations.
C2_RegionObligationSymmetry ==
  /\ \A i \in DOMAIN log :
        log[i].e = "regions" =>
          /\ log[i].emitted =
               RegionObligations(log[i].variance, log[i].v_a, log[i].v_b)
          /\ log[i].r = Ok(log[i].a)
          /\ log[i].a.k # "ReLateBound" => log[i].v_a = log[i].a
          /\ log[i].b.k # "ReLateBound" => log[i].v_b = log[i].b
  /\ last.op = "regions" =>
        /\ last.r.k # "err"
        /\ last.r.k = "ok" =>
              /\ last.r = Ok(last.a)
              /\ Len(log) = 1
              /\ delegate.outlives =
                   last.pre.delegate.outlives \o log[1].emitted
              /\ delegate.goals = last.pre.delegate.goals
              /\ type_variables = last.pre.vars
              /\ ambient_variance = last.pre.variance

\* C2 witness: 'x was related to 'y under Invariant and both obligations
\* were emitted, outlives('y, 'x) first.
C2_Witness ==
  /\ last.op = "regions"
  /\ last.a = RegX
  /\ last.b = RegY
  /\ last.pre.variance = Invariant
  /\ delegate.outlives = << <<RegY, RegX>>, <<RegX, RegY>> >>

\* the engine as the call just made found it, under the ambient variance
\* `variance`
PreSelf(variance) ==
  [ambient_variance |-> variance, a_scopes |-> last.pre.a_scopes,
   b_scopes |-> last.pre.b_scopes, vars |-> last.pre.vars,
   delegate |-> last.pre.delegate, log |-> <<>>]

\* the call just made related two quantified values under Invariant
InvariantBinders ==
  /\ last.op = "tys"
  /\ last.a.k = "FnPtr"
  /\ last.b.k = "FnPtr"
  /\ last.pre.variance = Invariant

\* the ambient variances under which the bodies of the two operands of the
\* call just made were related, in order
BodyVariances ==
  LET bodies == SelectSeq(log, LAMBDA ev : /\ ev.e = "enter"
                                           /\ ev.f = "FnSig"
                                           /\ ev.a = last.a
                                           /\ ev.b = last.b)
  IN [i \in DOMAIN bodies |-> bodies[i].variance]

\* x is the outcome of a covariant relation of the operands of the call just
\* made: the contravariant relation that follows it
ContravariantAfter(x) ==
  IF x.ok
  THEN tys([x.s EXCEPT !.ambient_variance = Contravariant], last.a, last.b)
  ELSE x

\* the call just made ended as x did: the same outcome, obligations, type
\* variables and scope stacks
SameEffects(x) ==
  /\ x.r = last.r
  /\ x.s.delegate = delegate
  /\ x.s.vars = type_variables
  /\ x.s.a_scopes = a_scopes
  /\ x.s.b_scopes = b_scopes

\* x is the outcome of a covariant relation of the operands of the call just
\* made, from the state that call started in
DecomposesAs(x) ==
  /\ BodyVariances = IF x.ok THEN <<Covariant, Contravariant>>
                     ELSE <<Covariant>>
  /\ SameEffects(ContravariantAfter(x))

\* C3 as stated: binder equality decomposition.  Relating two quantified
\* values under Invariant relates their bodies exactly twice, once under
\* Covariant and once under Contravariant.
C3_BodiesRelatedTwice ==
  InvariantBinders /\ Returned =>
    BodyVariances = <<Covariant, Contravariant>>

\* C3: binder equality decomposition.  Relating two quantified values under
\* Invariant relates their bodies under Covariant and then, when that
\* relation succeeded, under Contravariant, and never under Invariant: twice
\* when the covariant relation succeeds, once when it fails.  Its outcome,
\* obligations (outlives and domain goals, in order) and type variables are
\* those of a covariant relation of the two values followed, when it
\* succeeds, by a contravariant relation of them.  for<a> fn(&a, &a) against
\* for<b, c> fn(&b, &c) succeeds.
C3_BinderEqualityDecomposition ==
  InvariantBinders =>
    /\ DecomposesAs(tys(PreSelf(Covariant), last.a, last.b))
    /\ last.r.k = "ok" => BodyVariances = <<Covariant, Contravariant>>
    /\ last.a = FnAA /\ last.b = FnBC => last.r = Ok(FnAA)

\* C3 witness: for<a> fn(&a, &a) was related to for<b, c> fn(&b, &c) under
\* Invariant; the bodies were related twice and the relation succeeded with
\* the obligations of both directions.
C3_Witness ==
  /\ InvariantBinders
  /\ last.a = FnAA
  /\ last.b = FnBC
  /\ last.r = Ok(FnAA)
  /\ BodyVariances = <<Covariant, Contravariant>>
  /\ Len(delegate.outlives) = 4

\* the generalizer's traversal of value t under the type variables tv reaches
\* a type variable whose sub-root is sub_root
RECURSIVE OccursIn(_, _, _)
OccursIn(tv, t, sub_root) ==
  CASE t.k = "TyVar" ->
         \/ sub_root_var(tv, t.vid) = sub_root
         \/ /\ probe(tv, t.vid).known
            /\ OccursIn(tv, probe(tv, t.vid).value, sub_root)
    [] t.k = "Ref" -> OccursIn(tv, t.t, sub_root)
    [] t.k = "FnPtr" ->
         \/ \E i \in DOMAIN t.inputs : OccursIn(tv, t.inputs[i], sub_root)
         \/ OccursIn(tv, t.output, sub_root)
    [] OTHER -> FALSE

\* the traversal reaches a placeholder type of a universe newer than universe
RECURSIVE NewerPlaceholderIn(_, _, _)
NewerPlaceholderIn(tv, t, universe) ==
  CASE t.k = "Placeholder" -> t.u > universe
    [] t.k = "TyVar" ->
         /\ probe(tv, t.vid).known
         /\ NewerPlaceholderIn(tv, probe(tv, t.vid).value, universe)
    [] t.k = "Ref" -> NewerPlaceholderIn(tv, t.t, universe)
    [] t.k = "FnPtr" ->
         \/ \E i \in DOMAIN t.inputs :
               NewerPlaceholderIn(tv, t.inputs[i], universe)
         \/ NewerPlaceholderIn(tv, t.output, universe)
    [] OTHER -> FALSE

\* ev is a generalization with the forbid_inference_vars policy off
Generalization(ev) == ev.e = "generalize_value" /\ ~forbid_inference_vars

\* C4 as stated: occurs check.  With the policy off, generalizing a value for
\* vid fails with a mismatch when the traversal reaches a type variable whose
\* sub-root is vid's sub-root, and succeeds when the value has no such
\* variable.
C4_FailsOnlyOnOccurrence ==
  \A i \in DOMAIN log :
     Generalization(log[i]) =>
       (log[i].r = Err <=>
          OccursIn(log[i].vars, log[i].value,
                   sub_root_var(log[i].vars, log[i].for_vid)))

\* C4: occurs check.  With the policy off, generalizing a value for vid
\* fails with a mismatch exactly when the traversal reaches (directly in the
\* value, or inside the known value of a reached variable) a type variable
\* whose sub-root is vid's sub-root or a placeholder type of a universe that
\* vid's universe cannot name, and succeeds otherwise; when it fails, vid is
\* left without an assigned value.
C4_OccursCheck ==
  \A i \in DOMAIN log :
     Generalization(log[i]) =>
       /\ log[i].r.k \in {"ok", "err"}
       /\ log[i].r = Err <=>
            \/ OccursIn(log[i].vars, log[i].value,
                        sub_root_var(log[i].vars, log[i].for_vid))
            \/ NewerPlaceholderIn(log[i].vars, log[i].value, log[i].universe)
       /\ log[i].r = Err =>
            /\ last.r = Err
            /\ ~probe(type_variables, log[i].for_vid).known

\* C4 witness: ?1 <: ?2 was recorded, and ?2 was related to &'y ?1; the
\* generalization of &'y ?1 for ?2 failed and ?2 has no value.
C4_Witness ==
  /\ ~forbid_inference_vars
  /\ last.op = "tys"
  /\ last.a = Var2
  /\ last.b = RefYVar
  /\ last.r = Err
  /\ sub_root_var(last.pre.vars, 1) = sub_root_var(last.pre.vars, 2)
  /\ \E i \in DOMAIN log :
        /\ Generalization(log[i])
        /\ log[i].for_vid = 2
        /\ log[i].r = Err
  /\ ~probe(type_variables, 2).known

\* C5: universe visibility.  Every generalization of a placeholder type of
\* universe U2 for a variable of universe U1 returns the placeholder
\* unchanged when U2 <= U1 and a mismatch when U2 > U1.
C5_UniverseVisibility ==
  \A i \in DOMAIN log :
     log[i].e = "gen_placeholder" =>
       /\ log[i].a.u <= log[i].universe => log[i].r = Ok(log[i].a)
       /\ log[i].a.u > log[i].universe => log[i].r = Err

\* C5 witness: ?1, of universe 0, was related to the placeholder type of
\* universe MaxUniverse; the generalizer refused the placeholder.
C5_Witness ==
  /\ last.op = "tys"
  /\ last.a = Var1
  /\ last.b = Placeholder(MaxUniverse)
  /\ last.r = Err
  /\ \E i \in DOMAIN log :
        /\ log[i].e = "gen_placeholder"
        /\ log[i].a = Placeholder(MaxUniverse)
        /\ log[i].universe = 0
        /\ log[i].r = Err

\* the call just made related two unresolved type variables with the
\* forbid_inference_vars policy off
TwoUnresolvedVariables ==
  /\ last.op = "tys"
  /\ ~forbid_inference_vars
  /\ last.a.k = "TyVar"
  /\ last.b.k = "TyVar"
  /\ ~probe(last.pre.vars, last.a.vid).known
  /\ ~probe(last.pre.vars, last.b.vid).known

\* C6: variable-variable relation.  With the policy off, relating two
\* unresolved type variables, under any ambient variance, succeeds and only
\* equates them: afterwards they have one root, the type variables are those
\* of type_variables.equate, the generalizer was not called, no variable was
\* given a value, no variable or region was created, and no outlives
\* obligation or domain goal was emitted.
C6_VariableVariableRelation ==
  TwoUnresolvedVariables =>
    /\ last.r = Ok(last.a)
    /\ root_var(type_variables, last.a.vid)
         = root_var(type_variables, last.b.vid)
    /\ type_variables = equate(last.pre.vars, last.b.vid, last.a.vid)
    /\ \A i \in DOMAIN log :
          log[i].e \notin {"generalize_value", "instantiate", "gen_regions",
                           "gen_placeholder", "gen_forbidden"}
    /\ \A v \in DOMAIN last.pre.vars :
          /\ type_variables[v].known = last.pre.vars[v].known
          /\ type_variables[v].value = last.pre.vars[v].value
    /\ Len(type_variables) = Len(last.pre.vars)
    /\ delegate = last.pre.delegate
    /\ ambient_variance = last.pre.variance

\* C6 witness: ?1 was related to ?2 under Contravariant and they now have
\* one root.
C6_Witness ==
  /\ TwoUnresolvedVariables
  /\ last.a = Var1
  /\ last.b = Var2
  /\ last.pre.variance = Contravariant
  /\ root_var(last.pre.vars, 1) # root_var(last.pre.vars, 2)
  /\ root_var(type_variables, 1) = root_var(type_variables, 2)

\* the operands of the call just made as tys sees them after its
\* shallow_resolve (b is resolved only with the policy off)
SeenA == shallow_resolve(last.pre.vars, last.a)
SeenB ==
  IF forbid_inference_vars THEN last.b
  ELSE shallow_resolve(last.pre.vars, last.b)

\* the call just made related, under Lazy normalization, a projection and a
\* value, neither side being a type variable
ProjectionRelation ==
  /\ last.op = "tys"
  /\ normalization = Lazy
  /\ SeenA.k # "TyVar"
  /\ SeenB.k # "TyVar"
  /\ SeenA.k = "Projection" \/ SeenB.k = "Projection"

\* the call just made emitted exactly the domain goals gs, in order, and
\* returned the type t
Deferred(gs, t) ==
  /\ last.r = Ok(t)
  /\ delegate.goals = last.pre.delegate.goals \o gs
  /\ delegate.outlives = last.pre.delegate.outlives
  /\ delegate.regions = last.pre.delegate.regions

\* C7: projection deferral.  Under Lazy normalization and with neither side
\* a type variable, relating a projection P and a type T that is not a
\* projection, P on either side, emits exactly the domain goal P = T and
\* returns T, leaving the type variables as they were; relating projections
\* P1 and P2 creates one type variable u, emits exactly the goals P1 = u and
\* P2 = u, and returns u; the relation always succeeds.
C7_ProjectionDeferral ==
  ProjectionRelation =>
    CASE SeenA.k = "Projection" /\ SeenB.k = "Projection" ->
           /\ Deferred(<< <<SeenA, TyVar(Len(last.pre.vars) + 1)>>,
                          <<SeenB, TyVar(Len(last.pre.vars) + 1)>> >>,
                       TyVar(Len(last.pre.vars) + 1))
           /\ Len(type_variables) = Len(last.pre.vars) + 1
           /\ SubSeq(type_variables, 1, Len(last.pre.vars)) = last.pre.vars
           /\ ~probe(type_variables, Len(type_variables)).known
           /\ root_var(type_variables, Len(type_variables))
                = Len(type_variables)
      [] SeenA.k = "Projection" /\ SeenB.k # "Projection" ->
           /\ Deferred(<< <<SeenA, SeenB>> >>, SeenB)
           /\ type_variables = last.pre.vars
      [] SeenA.k # "Projection" /\ SeenB.k = "Projection" ->
           /\ Deferred(<< <<SeenB, SeenA>> >>, SeenA)
           /\ type_variables = last.pre.vars

\* C7 witness: two different projections were related under Lazy
\* normalization; ?3 was created and both goals name it.
C7_Witness ==
  /\ ProjectionRelation
  /\ last.a = Projection(1)
  /\ last.b = Projection(2)
  /\ last.r = Ok(TyVar(3))
  /\ delegate.goals = << <<Projection(1), TyVar(3)>>,
                         <<Projection(2), TyVar(3)>> >>

\* C8: fatal misuse is distinct from mismatch.  With the
\* forbid_inference_vars policy on, a relation of types whose right-hand
\* side is a type variable, and a generalizer that meets an inference
\* variable, end the call with bug!, not Err; with the policy off no call
\* ends with bug! and the generalizer never takes that arm.
C8_FatalMisuse ==
  /\ \A i \in DOMAIN log :
        /\ ( /\ forbid_inference_vars
             /\ log[i].e = "enter"
             /\ log[i].f = "ty"
             /\ log[i].b.k = "TyVar" ) => last.r = Bug
        /\ log[i].e = "gen_forbidden" =>
             /\ forbid_inference_vars
             /\ log[i].a.k \in {"TyVar", "IntVar"}
             /\ log[i].r = Bug
             /\ last.r = Bug
  /\ ~forbid_inference_vars => last.r # Bug

\* C8 witness: with the policy on, ?2 was related to &'y ?1; the generalizer
\* met ?1 and the call ended with bug!.
C8_Witness ==
  /\ forbid_inference_vars
  /\ last.op = "tys"
  /\ last.a = Var2
  /\ last.b = RefYVar
  /\ last.r = Bug
  /\ \E i \in DOMAIN log : log[i].e = "gen_forbidden" /\ log[i].a = Var1

\* C9 as stated: the type a successful top-level relation of types returns
\* is one of its two operands.
C9_ReturnsAnOperand ==
  last.op = "tys" /\ last.r.k = "ok" => last.r.v \in {last.a, last.b}

\* C9: a successful top-level relation of two types returns its left
\* operand a when neither operand contains an inference variable and, under
\* Lazy normalization, neither is a projection.  Under Lazy normalization a
\* projection related to a type that is neither a projection nor a type
\* variable returns that type, whichever side it is on, and two projections
\* return the type variable made for them, which is not an operand.
C9_ReturnedType ==
  last.op = "tys" /\ last.r.k = "ok" =>
    /\ ( /\ ~has_infer_types(last.a)
         /\ ~has_infer_types(last.b)
         /\ normalization = Lazy =>
               last.a.k # "Projection" /\ last.b.k # "Projection" ) =>
         last.r.v = last.a
    /\ ( /\ normalization = Lazy
         /\ last.a.k = "Projection"
         /\ last.b.k \notin {"Projection", "TyVar"} ) =>
         last.r.v = last.b
    /\ ( /\ normalization = Lazy
         /\ last.b.k = "Projection"
         /\ last.a.k \notin {"Projection", "TyVar"} ) =>
         last.r.v = last.a
    /\ ( /\ normalization = Lazy
         /\ last.a.k = "Projection"
         /\ last.b.k = "Projection" ) =>
         /\ last.r.v = TyVar(Len(last.pre.vars) + 1)
         /\ last.r.v \notin {last.a, last.b}

\* C9 witness: for<a> fn(&a, &a) was related to for<b, c> fn(&b, &c) under
\* Contravariant and the relation returned its left operand.
C9_Witness ==
  /\ last.op = "tys"
  /\ last.a = FnAA
  /\ last.b = FnBC
  /\ last.pre.variance = Contravariant
  /\ last.r = Ok(FnAA)

\* C10: a_scopes and b_scopes have equal length on entry to and on exit from
\* every recursive relate call, the relation of a generalized value to the
\* original value inside relate_ty_var included.
C10_ScopeStacksEqualLength ==
  \A i \in DOMAIN log :
     log[i].e \in {"enter", "exit"} => log[i].la = log[i].lb

\* ev is an assignment of a generalized value to a type variable; r is a
\* region of that value met under `depth` binders of the value: it is bound
\* by one of them, or it was made by generalize_existential for the
\* variable's universe during the generalization
PurgedRegion(ev, r, depth) ==
  \/ r.k = "ReLateBound" /\ r.d < depth
  \/ /\ r.k = "ReVar"
     /\ r.by = "generalize"
     /\ r.u = ev.universe
     /\ r.id > ev.regions_before

\* t, met under `depth` binders of the value assigned by ev, is purged
RECURSIVE PurgedType(_, _, _)
PurgedType(ev, t, depth) ==
  CASE t.k = "Placeholder" -> t.u <= ev.universe
    [] t.k = "TyVar" ->
         /\ t.vid > Len(ev.vars_before)
         /\ t.vid <= Len(ev.vars)
         /\ ev.vars[t.vid] = NewVarRec(t.vid, ev.universe)
    [] t.k = "Ref" ->
         PurgedRegion(ev, t.r, depth) /\ PurgedType(ev, t.t, depth)
    [] t.k = "FnPtr" ->
         /\ \A i \in DOMAIN t.inputs : PurgedType(ev, t.inputs[i], depth + 1)
         /\ PurgedType(ev, t.output, depth + 1)
    [] OTHER -> TRUE

BinderEntry(i) == log[i].e = "enter" /\ log[i].f = "binder"

\* log[j] is the return of the relation of the bodies of the binder
\* relation entered at log[i]
BodiesExit(i, j) ==
  /\ j > i
  /\ log[j].e = "exit"
  /\ log[j].f = "FnSig"
  /\ log[j].a = log[i].a
  /\ log[j].b = log[i].b

\* log[k] is the creation of a scope for value, of placeholders of one new
\* universe when universal and of existential region variables otherwise
ScopeCreated(k, value, universal) ==
  /\ log[k].e = "create_scope"
  /\ log[k].value = value
  /\ log[k].universally_quantified = universal
  /\ \A n \in DOMAIN log[k].scope :
        IF universal
        THEN /\ log[k].scope[n].region.k = "RePlaceholder"
             /\ log[k].scope[n].region.u = log[k].universe_after
        ELSE /\ log[k].scope[n].region.k = "ReVar"
             /\ log[k].scope[n].region.by = "existential"

\* right after log[j], inside the binder relation entered at log[i], a scope
\* is created for `universal` with placeholders, then one for `existential`
\* with existential variables, both stacks are one longer than at log[i],
\* and the bodies are related under `variance`
BranchAfter(i, j, universal, existential, variance) ==
  /\ j + 3 <= Len(log)
  /\ ScopeCreated(j + 1, universal, TRUE)
  /\ ScopeCreated(j + 2, existential, FALSE)
  /\ log[j + 3].e = "enter"
  /\ log[j + 3].f = "FnSig"
  /\ log[j + 3].a = log[i].a
  /\ log[j + 3].b = log[i].b
  /\ log[j + 3].variance = variance
  /\ log[j + 3].la = log[i].la + 1
  /\ log[j + 3].lb = log[i].lb + 1

C13_AmbientVarianceRestored ==
  Returned => ambient_variance = last.pre.variance

\* the names of the late-bound regions of t (of the types ts) that refer to
\* the binder `depth` levels out, in the order a traversal meets them
RECURSIVE TargetedNames(_, _), TargetedNamesOfAll(_, _)
TargetedNames(t, depth) ==
  CASE t.k = "Ref" ->
         (IF t.r.k = "ReLateBound" /\ t.r.d = depth THEN <<t.r.br>> ELSE <<>>)
           \o TargetedNames(t.t, depth)
    [] t.k = "FnPtr" ->
         TargetedNamesOfAll(t.inputs \o <<t.output>>, depth + 1)
    [] OTHER -> <<>>

TargetedNamesOfAll(ts, depth) ==
  IF ts = <<>> THEN <<>>
  ELSE TargetedNames(Head(ts), depth) \o TargetedNamesOfAll(Tail(ts), depth)

\* the elements of q, each once, in the order of their first occurrence
RECURSIVE FirstOccurrences(_)
FirstOccurrences(q) ==
  IF q = <<>> THEN <<>>
  ELSE LET d == FirstOccurrences(SubSeq(q, 1, Len(q) - 1))
       IN IF \E n \in DOMAIN d : d[n] = q[Len(q)] THEN d
          ELSE Append(d, q[Len(q)])

\* the names bound by the outermost binder of value, in first-encounter order
ScopeNames(value) ==
  FirstOccurrences(
    TargetedNamesOfAll(value.inputs \o <<value.output>>, INNERMOST))

\* ev is a create_scope of a value whose outermost binder binds `names`
ScopeOf(ev, names) ==
  /\ Len(ev.scope) = Len(names)
  /\ \A n \in DOMAIN names : ev.scope[n].br = names[n]
  /\ IF ev.universally_quantified
     THEN /\ ev.delegate_after =
               [ev.delegate_before EXCEPT
                  !.universe = IF names = <<>> THEN @ ELSE @ + 1,
                  !.placeholders = @ + Len(names)]
          /\ \A n \in DOMAIN names :
                ev.scope[n].region =
                  RePlaceholder(ev.delegate_after.universe, names[n])
     ELSE /\ ev.delegate_after =
               [ev.delegate_before EXCEPT !.regions = @ + Len(names)]
          /\ \A n \in DOMAIN names :
                ev.scope[n].region =
                  ReVar(ev.delegate_before.regions + n,
                        ev.delegate_before.universe, "existential")

\* C14: create_scope(value, universally_quantified) maps exactly the names
\* of the late-bound regions of value that refer to its outermost binder,
\* each once, in first-encounter order, with one delegate request per name:
\* when universal, placeholders that all carry one universe created for the
\* scope, which is created only if a name is met; when existential, region
\* variables and no universe.
C14_CreateScope ==
  \A i \in DOMAIN log :
     log[i].e = "create_scope" => ScopeOf(log[i], ScopeNames(log[i].value))

\* C14 witness: a universal scope was created for
\* for<a> fn(for<b> fn(&a, &b) -> bool, &a) -> bool; it maps a alone, to a
\* placeholder of a new universe, though a occurs twice and b once.
C14_Witness ==
  \E i \in DOMAIN log :
     /\ log[i].e = "create_scope"
     /\ log[i].value = FnNested
     /\ log[i].universally_quantified
     /\ log[i].scope =
          << [br |-> "a",
              region |-> RePlaceholder(log[i].universe_before + 1, "a")] >>
     /\ log[i].universe_after = log[i].universe_before + 1

\* ev is a region generalization that replaced its region by a new region
\* from generalize_existential(universe)
Replaced(ev) ==
  /\ ev.r = Ok(ReVar(ev.regions_before + 1, ev.universe, "generalize"))
  /\ ev.r.v # ev.a

\* C15 as stated: the generalizer returns unchanged a bound region that
\* refers to a quantifier outside the value being generalized (its depth is
\* not below the number of binders opened so far) and replaces every other
\* region by a fresh existential region.
C15_OuterBoundRegionsKept ==
  \A i \in DOMAIN log :
     log[i].e = "gen_regions" =>
       IF log[i].a.k = "ReLateBound" /\ log[i].a.d >= log[i].first_free_index
       THEN log[i].r = Ok(log[i].a)
       ELSE Replaced(log[i])

\* C15: generalizer region handling.  The generalizer returns unchanged a
\* bound region that refers to a binder opened during the generalization
\* (its depth is below the number of binders opened so far, so it is bound
\* inside the value) and replaces every other region, a bound region that
\* refers to a quantifier outside the value included, by a fresh region from
\* generalize_existential(U); it never fails.
C15_GeneralizerRegions ==
  \A i \in DOMAIN log :
     log[i].e = "gen_regions" =>
       IF log[i].a.k = "ReLateBound" /\ log[i].a.d < log[i].first_free_index
       THEN log[i].r = Ok(log[i].a)
       ELSE Replaced(log[i])

\* C15 witness: ?1 was related to for<a> fn(&a bool, &a bool) -> bool; the
\* generalizer met a under one opened binder and kept it.
C15_Witness ==
  /\ last.op = "tys"
  /\ last.a = Var1
  /\ last.b = FnAA
  /\ last.r.k = "ok"
  /\ \E i \in DOMAIN log :
        /\ log[i].e = "gen_regions"
        /\ log[i].a = BoundA
        /\ log[i].first_free_index = 1
        /\ log[i].r = Ok(BoundA)

\* the call just made related a value that is not a type variable and an
\* unresolved type variable, on side `side`, with the policy off, and
\* assigned the variable a generalized value
RelatedToVariable(side) ==
  /\ last.op = "tys"
  /\ ~forbid_inference_vars
  /\ IF side = "b"
     THEN /\ last.b.k = "TyVar"
          /\ ~probe(last.pre.vars, last.b.vid).known
          /\ SeenA.k # "TyVar"
     ELSE /\ last.a.k = "TyVar"
          /\ ~probe(last.pre.vars, last.a.vid).known
          /\ SeenB.k # "TyVar"
  /\ \E i \in DOMAIN log : log[i].e = "instantiate"

\* the assignment made for the variable of the call just made
Assignment ==
  log[CHOOSE i \in DOMAIN log :
        /\ log[i].e = "instantiate"
        /\ \A j \in 1..(i - 1) : log[j].e # "instantiate"]

\* the engine right after the assignment ev, before the generalized value is
\* related to the original one
AfterAssignment(ev) ==
  [ambient_variance |-> last.pre.variance, a_scopes |-> last.pre.a_scopes,
   b_scopes |-> last.pre.b_scopes,
   vars |-> instantiate(ev.vars, ev.vid, ev.generalized_ty),
   delegate |-> ev.delegate, log |-> <<>>]

\* the outlives obligations of a sequence of them
Obligations(outlives) == {outlives[n] : n \in DOMAIN outlives}

\* the call just made emitted the outlives obligations x did
SameObligations(x) ==
  Obligations(x.s.delegate.outlives) = Obligations(delegate.outlives)

\* C16: operand sides are preserved when a variable is instantiated.  With
\* the policy off, relating a value T that is not a variable to an unresolved
\* variable emits the outlives obligations of relating T to G, and relating
\* the variable to T those of relating G to T, where G is the generalized
\* value assigned to the variable.
C16_OperandSidesPreserved ==
  /\ RelatedToVariable("b") =>
       SameObligations(tys(AfterAssignment(Assignment), SeenA,
                           Assignment.generalized_ty))
  /\ RelatedToVariable("a") =>
       SameObligations(tys(AfterAssignment(Assignment),
                           Assignment.generalized_ty, SeenB))

\* no late-bound region of t, met under `depth` binders of t, refers to a
\* binder outside t
RECURSIVE NoEscapingBoundRegions(_, _)
NoEscapingBoundRegions(t, depth) ==
  CASE t.k = "Ref" ->
         /\ t.r.k = "ReLateBound" => t.r.d < depth
         /\ NoEscapingBoundRegions(t.t, depth)
    [] t.k = "FnPtr" ->
         /\ \A i \in DOMAIN t.inputs :
               NoEscapingBoundRegions(t.inputs[i], depth + 1)
         /\ NoEscapingBoundRegions(t.output, depth + 1)
    [] OTHER -> TRUE

\* the call just made related two types without escaping bound regions and
\* started with empty scope stacks
ClosedRelation ==
  /\ last.op = "tys"
  /\ last.pre.a_scopes = <<>>
  /\ last.pre.b_scopes = <<>>
  /\ NoEscapingBoundRegions(last.a, 0)
  /\ NoEscapingBoundRegions(last.b, 0)

\* C17: bound-region resolution never fails.  In a top-level relate call
\* started with empty scope stacks on two values without escaping bound
\* regions, every bound region of depth d met by the region relation is
\* looked up in the stack of its side at a depth the stack has, in a scope
\* that holds its name: no lookup panics.
C17_BoundRegionResolution ==
  ClosedRelation =>
    /\ last.r # Panic
    /\ \A i \in DOMAIN log :
          log[i].e = "regions" =>
            /\ log[i].a.k = "ReLateBound" => log[i].a.d < log[i].la
            /\ log[i].b.k = "ReLateBound" => log[i].b.d < log[i].lb

=============================================================================
